---- MODULE Spec2Model ----
(***************************************************************************)
(* Layout-cell generators of the IHP PDK: bondpad, bondpad_array           *)
(* (src/ihp/cells/bondpads.py) and inductor2, inductor3                    *)
(* (src/ihp/cells/inductors.py).                                           *)
(*                                                                         *)
(* Lengths are integers in nanometres (0.001 um), so the manufacturing     *)
(* grid 0.01 um is 10.  Trigonometric factors are fixed-point numbers with *)
(* TrigScale = 10000, and a coordinate that is the product of a length and *)
(* such a factor is kept in units of 1/TrigScale nm.  Python's round() is  *)
(* modelled exactly on rationals (ties go to the even integer).            *)
(***************************************************************************)
EXTENDS Integers, Sequences, FiniteSets, TLC

VARIABLES pc, fn, err, bp, c, pairs, j, arr, ac, i, pad, ind, loc, ic

vars == <<pc, fn, err, bp, c, pairs, j, arr, ac, i, pad, ind, loc, ic>>

(* ----------------------------- bounds ---------------------------------- *)
MaxPads == 3
MaxOffsets == 3
MaxOffGrid == 2
MaxTurns == 2

(* ----------------------------- helpers --------------------------------- *)
Min(a, b) == IF a <= b THEN a ELSE b

\* Python round(n / m) for m > 0: nearest integer, ties to the even one.
RoundDiv(n, m) ==
    LET q == n \div m
        rem == n % m
    IN  IF 2 * rem < m THEN q
        ELSE IF 2 * rem > m THEN q + 1
        ELSE IF q % 2 = 0 THEN q ELSE q + 1

TrigScale == 10000
Cos225 == 9239
Sin225 == 3827
OnePlusSqrt2 == 24142

\* Component(): no instance, no polygon, no port, no metadata.
EmptyComponent == [refs |-> <<>>, polygons |-> <<>>, ports |-> <<>>, info |-> <<>>]

\* c.add_ref(cell) / c << cell, followed by the reference's move.
AddRef(comp, cell, dx, dy) ==
    [comp EXCEPT !.refs = Append(@, [cell |-> cell, dx |-> dx, dy |-> dy])]

AddPort(comp, port) == [comp EXCEPT !.ports = Append(@, port)]

AddPolygon(comp, pts, layer) ==
    [comp EXCEPT !.polygons = Append(@, [points |-> pts, layer |-> layer])]

SetInfo(comp, key, val) == [comp EXCEPT !.info = (key :> val) @@ @]

(* ============================ bondpad ================================== *)
RecognizedShapes == {"octagon", "square", "circle"}
Shapes == RecognizedShapes \cup {"triangle"}
PadDiameters == {80000, 40000}
TopMetalLayers == {"TopMetal2drawing", "TopMetal1drawing"}
OffsetValues == {-2100, 0}

SeqsUpTo(S, n) == UNION {[1..k -> S] : k \in 0..n}

\* bbox_offsets: None, or a tuple of offsets of any length.
BboxOffsetChoices ==
    {[none |-> TRUE, val |-> <<>>]}
        \cup {[none |-> FALSE, val |-> o] : o \in SeqsUpTo(OffsetValues, MaxOffsets)}

BondpadArgs ==
    [shape : Shapes, diameter : PadDiameters, layer_top_metal : TopMetalLayers,
     layer_passiv : {"Passivpillar"}, layer_dfpad : {"dfpaddrawing"},
     bbox_offsets : BboxOffsetChoices]

BondpadDefaults ==
    [shape |-> "octagon", diameter |-> 80000, layer_top_metal |-> "TopMetal2drawing",
     layer_passiv |-> "Passivpillar", layer_dfpad |-> "dfpaddrawing",
     bbox_offsets |-> [none |-> FALSE, val |-> <<-2100, 0>>]]

\* gf.snap.snap_to_grid2x of num / den: the nearest multiple of 2 nm.
SnapToGrid2x(num, den) == RoundDiv(num, 2 * den) * 2

\* The primitive drawn for a shape: the base pad when offset = 0 is passed
\* for the top metal, an opening otherwise (the same three sizing rules).
SquareCell(d, offset, layer) ==
    [kind |-> "rectangle", size |-> d + offset, layer |-> layer]

OctagonCell(d, offset, layer) ==
    [kind |-> "octagon",
     size |-> SnapToGrid2x(offset * OnePlusSqrt2 + d * TrigScale, OnePlusSqrt2),
     layer |-> layer]

CircleCell(d, offset, layer) ==
    [kind |-> "circle", size |-> (d \div 2) + (offset \div 2), layer |-> layer]

\* Mutant: the geometry is drawn first and the shape is validated afterwards.
BondpadEntry_ValidateLate(a) ==
    IF a.shape \in RecognizedShapes
    THEN [raised |-> FALSE, err |-> "",
          c |-> AddRef(EmptyComponent,
                       IF a.shape = "square" THEN SquareCell(a.diameter, 0, a.layer_top_metal)
                       ELSE IF a.shape = "octagon"
                            THEN OctagonCell(a.diameter, 0, a.layer_top_metal)
                            ELSE CircleCell(a.diameter, 0, a.layer_top_metal), 0, 0)]
    ELSE [raised |-> TRUE, err |-> "Unknown shape: " \o a.shape,
          c |-> AddRef(EmptyComponent, CircleCell(a.diameter, 0, a.layer_top_metal), 0, 0)]

\* bondpad, from c = Component() to the end of the shape dispatch.
BondpadEntry(a) ==
    IF a.shape = "square"
    THEN [raised |-> FALSE, err |-> "",
          c |-> AddRef(EmptyComponent, SquareCell(a.diameter, 0, a.layer_top_metal), 0, 0)]
    ELSE IF a.shape = "octagon"
    THEN [raised |-> FALSE, err |-> "",
          c |-> AddRef(EmptyComponent, OctagonCell(a.diameter, 0, a.layer_top_metal), 0, 0)]
    ELSE IF a.shape = "circle"
    THEN [raised |-> FALSE, err |-> "",
          c |-> AddRef(EmptyComponent, CircleCell(a.diameter, 0, a.layer_top_metal), 0, 0)]
    ELSE [raised |-> TRUE, err |-> "Unknown shape: " \o a.shape, c |-> EmptyComponent]

BboxLayers(a) == <<a.layer_passiv, a.layer_dfpad>>

\* bbox_offsets or []
OrEmpty(o) == IF o.none \/ o.val = <<>> THEN <<>> ELSE o.val

\* Mutant: every layer is drawn, a missing offset counting as 0.
Zip_AllLayers(layers, offsets) ==
    [k \in 1..Len(layers) |->
        <<layers[k], IF k <= Len(offsets) THEN offsets[k] ELSE 0>>]

\* zip(layers, offsets): stops at the shorter of the two.
Zip(layers, offsets) ==
    [k \in 1..Min(Len(layers), Len(offsets)) |-> <<layers[k], offsets[k]>>]

\* One iteration of the stacking loop, for the pair (layer, offset).
BondpadOpening(comp, a, layer, offset) ==
    IF a.shape = "square" THEN AddRef(comp, SquareCell(a.diameter, offset, layer), 0, 0)
    ELSE IF a.shape = "octagon" THEN AddRef(comp, OctagonCell(a.diameter, offset, layer), 0, 0)
    ELSE IF a.shape = "circle" THEN AddRef(comp, CircleCell(a.diameter, offset, layer), 0, 0)
    ELSE comp

PadPort(a) ==
    [name |-> "pad", x |-> 0, y |-> 0, width |-> a.diameter, orientation |-> 0,
     layer |-> a.layer_top_metal, port_type |-> "electrical"]

BondpadFinished(comp, a) ==
    SetInfo(SetInfo(SetInfo(AddPort(comp, PadPort(a)),
        "shape", a.shape), "diameter", a.diameter), "top_metal", a.layer_top_metal)

(* ========================== bondpad_array ============================== *)
PadPitches == {100000, 0}

ArrayArgs ==
    [n_pads : 0..MaxPads, pad_pitch : PadPitches, pad_diameter : {80000},
     shape : Shapes, layer_top_metal : TopMetalLayers,
     layer_passiv : {"Passivpillar"}, layer_dfpad : {"dfpaddrawing"},
     bbox_offsets : {[none |-> FALSE, val |-> <<-2100, 0>>],
                     [none |-> TRUE, val |-> <<>>]}]

\* Mutant: the shape is not forwarded, so every pad is built with the default.
PadCallArgs_DefaultShape(a) ==
    [shape |-> "octagon", diameter |-> a.pad_diameter,
     layer_top_metal |-> a.layer_top_metal, layer_passiv |-> a.layer_passiv,
     layer_dfpad |-> a.layer_dfpad, bbox_offsets |-> a.bbox_offsets]

\* The keyword arguments of the bondpad call in the loop body.
PadCallArgs(a) ==
    [shape |-> a.shape, diameter |-> a.pad_diameter,
     layer_top_metal |-> a.layer_top_metal, layer_passiv |-> a.layer_passiv,
     layer_dfpad |-> a.layer_dfpad, bbox_offsets |-> a.bbox_offsets]

\* pad.ports["pad"]
PortNamed(comp, name) ==
    comp.ports[CHOOSE k \in 1..Len(comp.ports) : comp.ports[k].name = name]

\* Mutant: the port is named after the 0-based loop index.
ArrayPort_ZeroBased(a, idx, p) ==
    [name |-> "pad_" \o ToString(idx), x |-> idx * a.pad_pitch, y |-> 0,
     width |-> a.pad_diameter, orientation |-> 0,
     layer |-> PortNamed(p, "pad").layer, port_type |-> "electrical"]

\* The port added for loop index idx (0-based) and the pad just built.
ArrayPort(a, idx, p) ==
    [name |-> "pad_" \o ToString(idx + 1), x |-> idx * a.pad_pitch, y |-> 0,
     width |-> a.pad_diameter, orientation |-> 0,
     layer |-> PortNamed(p, "pad").layer, port_type |-> "electrical"]

ArrayFinished(comp, a) ==
    SetInfo(SetInfo(SetInfo(comp,
        "n_pads", a.n_pads), "pad_pitch", a.pad_pitch), "pad_diameter", a.pad_diameter)

(* ============================ inductor2 ================================ *)
TM2 == <<134, 0>>
IND == <<27, 0>>
NoRCX == <<148, 0>>
PWellBlock == <<46, 21>>
TopMetal2Pin == <<134, 2>>

NoFill_layers ==
    << <<1, 23>>, <<5, 23>>, <<8, 23>>, <<10, 23>>, <<30, 23>>,
       <<50, 23>>, <<67, 23>>, <<126, 23>>, <<134, 23>> >>

grid == 10

Widths == {2000 + 7 * k : k \in 0..MaxOffGrid} \cup {0, -2005}
Spaces == {2100 + 4 * k : k \in 0..MaxOffGrid} \cup {0, -2105}
Diameters == {25350, 24680, 0, -24683}
Turns == 1..MaxTurns
\* <<resistance, inductance>> in units of 1e-4 Ohm and 1e-15 H.
Electricals == {<<5777, 33303>>, <<13860, 221500>>}

Inductor2Args ==
    {[width |-> wi, space |-> sp, diameter |-> di, resistance |-> el[1],
      inductance |-> el[2], turns |-> t, block_qrc |-> b] :
        wi \in Widths, sp \in Spaces, di \in Diameters, el \in Electricals,
        t \in Turns, b \in BOOLEAN}

Inductor2Defaults ==
    [width |-> 2000, space |-> 2100, diameter |-> 25350, resistance |-> 5777,
     inductance |-> 33303, turns |-> 1, block_qrc |-> TRUE]

\* The parameter names of inductor2's signature.
Inductor2Params ==
    {"width", "space", "diameter", "resistance", "inductance", "turns", "block_qrc"}

\* Mutant: the diameter is snapped to the grid instead of to twice the grid.
Quantized_DiameterOnGrid(a) ==
    LET w == RoundDiv(a.width, 2 * grid) * 2 * grid
        s == RoundDiv(a.space, grid) * grid
        d == RoundDiv(a.diameter, grid) * grid
        r == (d \div 2) + s
    IN  [w |-> w, s |-> s, d |-> d, r |-> r, octagon_center_y |-> 3 * r]

\* Grid fixing and the derived radius and centre.
Quantized(a) ==
    LET w == RoundDiv(a.width, 2 * grid) * 2 * grid
        s == RoundDiv(a.space, grid) * grid
        d == RoundDiv(a.diameter, 2 * grid) * 2 * grid
        r == (d \div 2) + s
    IN  [w |-> w, s |-> s, d |-> d, r |-> r, octagon_center_y |-> 3 * r]

\* cos and sin of angle = k * 45 + 22.5 degrees, times TrigScale.
CosAt(k) ==
    LET m == k % 8
    IN  IF m \in {0, 7} THEN Cos225
        ELSE IF m \in {1, 6} THEN Sin225
        ELSE IF m \in {2, 5} THEN -Sin225
        ELSE -Cos225

SinAt(k) ==
    LET m == k % 8
    IN  IF m \in {1, 2} THEN Cos225
        ELSE IF m \in {0, 3} THEN Sin225
        ELSE IF m \in {4, 7} THEN -Sin225
        ELSE -Cos225

\* The octagon vertex appended for loop index k (coordinates times TrigScale).
CoilVertex(q, k) ==
    LET r == (q.d \div 2) + q.s
    IN  <<r * CosAt(k), r * SinAt(k) + q.octagon_center_y * TrigScale>>

\* Mutant: one more ring of vertices is wound for every turn beyond the first.
CoilPath_PerTurn(a, q) ==
    << <<(a.space * TrigScale) \div 2, q.octagon_center_y * TrigScale - q.r * Cos225>> >>
        \o [n \in 1..(8 * a.turns) |-> CoilVertex(q, n - 3)]
        \o << <<(-a.space * TrigScale) \div 2, q.octagon_center_y * TrigScale - q.r * Cos225>> >>

\* path_points: the entry point, the vertices for k in range(-2, 6), the exit point.
CoilPath(a, q) ==
    << <<(a.space * TrigScale) \div 2, q.octagon_center_y * TrigScale - q.r * Cos225>> >>
        \o [n \in 1..8 |-> CoilVertex(q, n - 3)]
        \o << <<(-a.space * TrigScale) \div 2, q.octagon_center_y * TrigScale - q.r * Cos225>> >>

\* c << gf.path.extrude(gf.Path(path_points), layer=TM2, width=w)
WithCoil(comp, q, pts) ==
    AddRef(comp, [kind |-> "extrude", points |-> pts, width |-> q.w, layer |-> TM2], 0, 0)

StubLength(q) == 2 * q.r + q.s

RectangleCell(sx, sy, layer) == [kind |-> "rectangle", size |-> <<sx, sy>>, layer |-> layer]

InductorPort(name, x, y, width) ==
    [name |-> name, x |-> x, y |-> y, width |-> width, orientation |-> 270, layer |-> TM2]

\* "Adding ports": the two stubs and the ports P1, P2.
WithPorts(comp, q) ==
    LET s == q.s
        length == StubLength(q)
        c1 == AddRef(comp, RectangleCell(s, length, TM2), -s - (s \div 2), 0)
        c2 == AddPort(c1, InductorPort("P1", -s, s, s))
        c3 == AddRef(c2, RectangleCell(s, length, TM2), s - (s \div 2), 0)
    IN  AddPort(c3, InductorPort("P2", s, s, s))

\* outer_polygon_pts, for k in range(8) (coordinates times TrigScale).
OuterPolygonPts(q) ==
    LET r_outer == RoundDiv(((q.d \div 2) + StubLength(q)) * TrigScale, Cos225)
    IN  [n \in 1..8 |->
            <<r_outer * CosAt(n - 1),
              r_outer * SinAt(n - 1) + q.octagon_center_y * TrigScale>>]

RECURSIVE WithNoFill(_, _, _)
\* for layer in NoFill_layers: c.add_polygon(points=outer_polygon_pts, layer=layer)
WithNoFill(comp, pts, layers) ==
    IF layers = <<>> THEN comp
    ELSE WithNoFill(AddPolygon(comp, pts, Head(layers)), pts, Tail(layers))

\* Mutant: the RC-extraction blocking layer is drawn whatever block_qrc says.
WithBlocking_Always(comp, a, pts) ==
    AddPolygon(AddPolygon(comp, pts, NoRCX), pts, PWellBlock)

\* The blocking layer (if block_qrc) and the PWell block.
WithBlocking(comp, a, pts) ==
    AddPolygon(IF a.block_qrc THEN AddPolygon(comp, pts, NoRCX) ELSE comp,
               pts, PWellBlock)

\* Mutant: the second pin is moved by -s only.
WithPins_ShiftedPin(comp, q) ==
    LET s == q.s
        c1 == AddRef(comp, RectangleCell(s, s, TopMetal2Pin), s \div 2, 0)
    IN  AddRef(c1, RectangleCell(s, s, TopMetal2Pin), -s, 0)

\* "Adding pins".
WithPins(comp, q) ==
    LET s == q.s
        c1 == AddRef(comp, RectangleCell(s, s, TopMetal2Pin), s \div 2, 0)
    IN  AddRef(c1, RectangleCell(s, s, TopMetal2Pin), -s - (s \div 2), 0)

\* "Add metadata".
WithInfo(comp, a) ==
    SetInfo(SetInfo(SetInfo(SetInfo(SetInfo(SetInfo(SetInfo(comp,
        "resistance", a.resistance), "inductance", a.inductance), "model", "inductor2"),
        "turns", a.turns), "width", a.width), "space", a.space), "diameter", a.diameter)

\* The component inductor2 returns for the arguments a.
Inductor2Layout(a) ==
    LET q == Quantized(a)
        c1 == WithCoil(EmptyComponent, q, CoilPath(a, q))
        c2 == WithPorts(c1, q)
        pts == OuterPolygonPts(q)
        c3 == AddPolygon(c2, pts, IND)
        c4 == WithNoFill(c3, pts, NoFill_layers)
        c5 == WithBlocking(c4, a, pts)
        c6 == WithPins(c5, q)
    IN  WithInfo(c6, a)

(* ============================ inductor3 ================================ *)
Inductor3Args ==
    {[width |-> wi, space |-> sp, diameter |-> di, resistance |-> el[1],
      inductance |-> el[2], turns |-> t, block_qrc |-> b, substrate_etch |-> e] :
        wi \in {2000, 2014}, sp \in {2100, 2104}, di \in Diameters, el \in Electricals,
        t \in Turns, b \in BOOLEAN, e \in BOOLEAN}

Inductor3Defaults ==
    [width |-> 2000, space |-> 2100, diameter |-> 24680, resistance |-> 13860,
     inductance |-> 221500, turns |-> 2, block_qrc |-> TRUE, substrate_etch |-> FALSE]

\* The keywords inductor3 passes in its call of inductor2.
Inductor3Kwargs ==
    {"width", "space", "diameter", "resistance", "inductance", "turns", "block_qrc",
     "substrate_etch"}

\* A keyword the callee's signature does not have makes the call raise TypeError.
UnexpectedKwargs(kwargs, params) == kwargs \ params

(* ========================= the state machine =========================== *)
ArrayDefaults ==
    [n_pads |-> 4, pad_pitch |-> 100000, pad_diameter |-> 80000, shape |-> "octagon",
     layer_top_metal |-> "TopMetal2drawing", layer_passiv |-> "Passivpillar",
     layer_dfpad |-> "dfpaddrawing", bbox_offsets |-> [none |-> FALSE, val |-> <<-2100, 0>>]]

NoLocals ==
    [w |-> 0, s |-> 0, d |-> 0, r |-> 0, octagon_center_y |-> 0,
     path_points |-> <<>>, outer_polygon_pts |-> <<>>]

\* No generator has been called yet.
Init ==
    /\ pc = "idle" /\ fn = "none" /\ err = ""
    /\ bp = BondpadDefaults /\ c = EmptyComponent /\ pairs = <<>> /\ j = 0
    /\ arr = ArrayDefaults /\ ac = EmptyComponent /\ i = 0 /\ pad = EmptyComponent
    /\ ind = Inductor2Defaults /\ loc = NoLocals /\ ic = EmptyComponent

padVars == <<bp, c, pairs, j>>
arrVars == <<arr, ac, i, pad>>
indVars == <<ind, loc, ic>>

(* ------------------------------ bondpad -------------------------------- *)
CallBondpad ==
    /\ pc = "idle"
    /\ \E a \in BondpadArgs : bp' = a
    /\ fn' = "bondpad" /\ pc' = "bp_entry"
    /\ UNCHANGED <<err, c, pairs, j, arrVars, indVars>>

\* c = Component() and the shape dispatch, which raises on an unknown shape.
BondpadShape ==
    /\ pc = "bp_entry"
    /\ LET e == BondpadEntry(bp)
       IN  /\ c' = e.c
           /\ err' = e.err
           /\ pc' = IF e.raised THEN "raised" ELSE "bp_stack"
           /\ pairs' = IF e.raised THEN <<>> ELSE Zip(BboxLayers(bp), OrEmpty(bp.bbox_offsets))
    /\ j' = 1
    /\ UNCHANGED <<fn, bp, arrVars, indVars>>

\* One iteration of "for layer, offset in zip(...)".
BondpadStack ==
    /\ pc = "bp_stack" /\ j <= Len(pairs)
    /\ c' = BondpadOpening(c, bp, pairs[j][1], pairs[j][2])
    /\ j' = j + 1
    /\ UNCHANGED <<pc, fn, err, bp, pairs, arrVars, indVars>>

\* The loop is exhausted: port, metadata, return (to the array loop if it called).
BondpadReturn ==
    /\ pc = "bp_stack" /\ j > Len(pairs)
    /\ c' = BondpadFinished(c, bp)
    /\ IF fn = "bondpad_array"
       THEN pad' = c' /\ pc' = "arr_add"
       ELSE pad' = pad /\ pc' = "done"
    /\ UNCHANGED <<fn, err, bp, pairs, j, arr, ac, i, indVars>>

(* --------------------------- bondpad_array ----------------------------- *)
CallBondpadArray ==
    /\ pc = "idle"
    /\ \E a \in ArrayArgs : arr' = a
    /\ fn' = "bondpad_array" /\ pc' = "arr_loop"
    /\ ac' = EmptyComponent /\ i' = 0
    /\ UNCHANGED <<err, padVars, pad, indVars>>

\* "for i in range(n_pads)" has a next index: call bondpad for it.
ArrayCallPad ==
    /\ pc = "arr_loop" /\ i < arr.n_pads
    /\ bp' = PadCallArgs(arr)
    /\ pc' = "bp_entry"
    /\ UNCHANGED <<fn, err, c, pairs, j, arrVars, indVars>>

\* The rest of the loop body: the reference, its move, the port.
ArrayAddPad ==
    /\ pc = "arr_add"
    /\ ac' = AddPort(AddRef(ac, pad, i * arr.pad_pitch, 0), ArrayPort(arr, i, pad))
    /\ i' = i + 1
    /\ pc' = "arr_loop"
    /\ UNCHANGED <<fn, err, padVars, arr, pad, indVars>>

\* The range is exhausted: metadata and return.
ArrayReturn ==
    /\ pc = "arr_loop" /\ i >= arr.n_pads
    /\ ac' = ArrayFinished(ac, arr)
    /\ pc' = "done"
    /\ UNCHANGED <<fn, err, padVars, arr, i, pad, indVars>>

(* ------------------------------ inductor2 ------------------------------ *)
CallInductor2 ==
    /\ pc = "idle"
    /\ \E a \in Inductor2Args : ind' = a
    /\ fn' = "inductor2" /\ pc' = "i2_grid"
    /\ UNCHANGED <<err, padVars, arrVars, loc, ic>>

Inductor2Grid ==
    /\ pc = "i2_grid"
    /\ LET q == Quantized(ind)
       IN  loc' = [loc EXCEPT !.w = q.w, !.s = q.s, !.d = q.d, !.r = q.r,
                              !.octagon_center_y = q.octagon_center_y]
    /\ ic' = EmptyComponent
    /\ pc' = "i2_path"
    /\ UNCHANGED <<fn, err, padVars, arrVars, ind>>

Inductor2Path ==
    /\ pc = "i2_path"
    /\ loc' = [loc EXCEPT !.path_points = CoilPath(ind, loc)]
    /\ ic' = WithCoil(ic, loc, loc'.path_points)
    /\ pc' = "i2_ports"
    /\ UNCHANGED <<fn, err, padVars, arrVars, ind>>

Inductor2Ports ==
    /\ pc = "i2_ports"
    /\ ic' = WithPorts(ic, loc)
    /\ pc' = "i2_outer"
    /\ UNCHANGED <<fn, err, padVars, arrVars, ind, loc>>

Inductor2Outer ==
    /\ pc = "i2_outer"
    /\ loc' = [loc EXCEPT !.outer_polygon_pts = OuterPolygonPts(loc)]
    /\ ic' = AddPolygon(ic, loc'.outer_polygon_pts, IND)
    /\ pc' = "i2_nofill"
    /\ UNCHANGED <<fn, err, padVars, arrVars, ind>>

Inductor2NoFill ==
    /\ pc = "i2_nofill"
    /\ ic' = WithNoFill(ic, loc.outer_polygon_pts, NoFill_layers)
    /\ pc' = "i2_block"
    /\ UNCHANGED <<fn, err, padVars, arrVars, ind, loc>>

Inductor2Block ==
    /\ pc = "i2_block"
    /\ ic' = WithBlocking(ic, ind, loc.outer_polygon_pts)
    /\ pc' = "i2_pins"
    /\ UNCHANGED <<fn, err, padVars, arrVars, ind, loc>>

Inductor2Pins ==
    /\ pc = "i2_pins"
    /\ ic' = WithPins(ic, loc)
    /\ pc' = "i2_info"
    /\ UNCHANGED <<fn, err, padVars, arrVars, ind, loc>>

Inductor2Return ==
    /\ pc = "i2_info"
    /\ ic' = WithInfo(ic, ind)
    /\ pc' = "done"
    /\ UNCHANGED <<fn, err, padVars, arrVars, ind, loc>>

(* ------------------------------ inductor3 ------------------------------ *)
CallInductor3 ==
    /\ pc = "idle"
    /\ \E a \in Inductor3Args : ind' = a
    /\ fn' = "inductor3" /\ pc' = "i3_call"
    /\ UNCHANGED <<err, padVars, arrVars, loc, ic>>

\* return inductor2(width=..., ..., substrate_etch=substrate_etch)
Inductor3Delegate ==
    /\ pc = "i3_call"
    /\ IF UnexpectedKwargs(Inductor3Kwargs, Inductor2Params) = {}
       THEN /\ pc' = "i2_grid"
            /\ err' = err
       ELSE /\ pc' = "raised"
            /\ err' = "TypeError: inductor2() got an unexpected keyword argument"
    /\ UNCHANGED <<fn, padVars, arrVars, indVars>>

Next ==
    \/ CallBondpad \/ BondpadShape \/ BondpadStack \/ BondpadReturn
    \/ CallBondpadArray \/ ArrayCallPad \/ ArrayAddPad \/ ArrayReturn
    \/ CallInductor2 \/ Inductor2Grid \/ Inductor2Path \/ Inductor2Ports
    \/ Inductor2Outer \/ Inductor2NoFill \/ Inductor2Block \/ Inductor2Pins
    \/ Inductor2Return
    \/ CallInductor3 \/ Inductor3Delegate

Spec == Init /\ [][Next]_vars

(* ============================== claims ================================= *)
Terminated == pc \in {"done", "raised"}

\* C1: inductor3 completes without raising and returns the layout inductor2
\* builds for the same width, space, diameter, resistance, inductance, turns
\* and block_qrc; with no arguments its metadata has turns 2, diameter 24.68,
\* resistance 1.386 and inductance 221.5e-12.
C1_Inductor3ReturnsInductor2Layout ==
    (fn = "inductor3" /\ Terminated) =>
        /\ pc = "done"
        /\ err = ""
        /\ ic = Inductor2Layout([k \in Inductor2Params |-> ind[k]])
        /\ (ind = Inductor3Defaults =>
                /\ ic.info["turns"] = 2
                /\ ic.info["diameter"] = 24680
                /\ ic.info["resistance"] = 13860
                /\ ic.info["inductance"] = 221500)

\* C2: for a valid shape, after the i-th loop iteration bondpad_array holds
\* exactly the ports pad_1 .. pad_i, port pad_k centred at ((k-1)*pad_pitch, 0)
\* with width pad_diameter and the layer of the instanced pad's own "pad" port,
\* and i pad instances translated by 0, pitch, .., (i-1)*pitch; the returned
\* component has exactly n_pads ports with pairwise distinct names.
C2_ArrayPorts ==
    (fn = "bondpad_array" /\ arr.shape \in RecognizedShapes) =>
        /\ pc # "raised"
        /\ Len(ac.ports) = i
        /\ Len(ac.refs) = i
        /\ \A k \in 1..i :
            /\ ac.ports[k].name = "pad_" \o ToString(k)
            /\ ac.ports[k].x = (k - 1) * arr.pad_pitch
            /\ ac.ports[k].y = 0
            /\ ac.ports[k].width = arr.pad_diameter
            /\ ac.ports[k].layer = PortNamed(ac.refs[k].cell, "pad").layer
            /\ ac.refs[k].dx = (k - 1) * arr.pad_pitch
            /\ ac.refs[k].dy = 0
        /\ \A k1, k2 \in 1..i : k1 # k2 => ac.ports[k1].name # ac.ports[k2].name
        /\ (pc = "done" => i = arr.n_pads)

C2_Witness ==
    /\ fn = "bondpad_array" /\ pc = "done" /\ arr.shape \in RecognizedShapes
    /\ arr.n_pads = 3 /\ arr.pad_pitch = 100000
    /\ Len(ac.ports) = 3 /\ ac.ports[3].name = "pad_3" /\ ac.ports[3].x = 200000

\* C3: bondpad called with an unrecognized shape raises an error whose message
\* names the shape, and the component under construction then holds no
\* instance, no polygon, no port and no metadata entry.
C3_UnknownShapeRaisesEmpty ==
    (fn = "bondpad" /\ bp.shape \notin RecognizedShapes /\ pc # "bp_entry") =>
        /\ pc = "raised"
        /\ err = "Unknown shape: " \o bp.shape
        /\ c.refs = <<>>
        /\ c.polygons = <<>>
        /\ c.ports = <<>>
        /\ DOMAIN c.info = {}

C3_Witness ==
    /\ fn = "bondpad" /\ pc = "raised" /\ bp.shape = "triangle"
    /\ bp.diameter = 40000 /\ Len(bp.bbox_offsets.val) = 2

\* The array never returns a component for an unrecognized shape: the call is
\* rejected with bondpad's error before any instance or port is added.
ArrayRejectsUnknownShape ==
    /\ pc \in {"arr_loop", "bp_entry", "raised"}
    /\ (pc = "raised" =>
            /\ err = "Unknown shape: " \o arr.shape
            /\ err = BondpadEntry(PadCallArgs(arr)).err
            /\ ac.refs = <<>>
            /\ ac.ports = <<>>)

\* C4 (as claimed): for every n_pads >= 0, bondpad_array with an unrecognized
\* shape is rejected with bondpad's invalid-shape error before any pad
\* instance or port is added, and never returns a component.
C4_ArrayRejectsForEveryCount ==
    (fn = "bondpad_array" /\ arr.shape \notin RecognizedShapes) =>
        ArrayRejectsUnknownShape

\* C4 (amended): for every n_pads >= 1, bondpad_array with an unrecognized
\* shape is rejected with bondpad's invalid-shape error before any pad
\* instance or port is added, and never returns a component.
C4_ArrayRejectsForPositiveCount ==
    (fn = "bondpad_array" /\ arr.shape \notin RecognizedShapes /\ arr.n_pads >= 1) =>
        ArrayRejectsUnknownShape

C4_Witness ==
    /\ fn = "bondpad_array" /\ arr.shape = "triangle" /\ arr.n_pads = 2
    /\ pc = "raised" /\ i = 0

\* C5: for a valid shape bondpad raises nothing and returns one top-metal base
\* polygon plus one polygon per (layer, offset) pair of (passivation,
\* deep-fill-pad) zipped with bbox_offsets: 1 + 2 for two offsets, 1 + 1
\* (passivation only) for one, 1 + 0 for none or None, never more than 1 + 2;
\* the k-th additional polygon is on the k-th layer.
C5_PolygonCount ==
    (fn = "bondpad" /\ bp.shape \in RecognizedShapes) =>
        /\ pc # "raised"
        /\ (pc = "done" =>
            LET given == IF bp.bbox_offsets.none THEN 0 ELSE Len(bp.bbox_offsets.val)
                layers == <<bp.layer_passiv, bp.layer_dfpad>>
            IN  /\ Len(c.refs) = 1 + (IF given >= 2 THEN 2 ELSE given)
                /\ (given = 2 => Len(c.refs) = 3)
                /\ (given = 1 => Len(c.refs) = 2)
                /\ (given = 0 => Len(c.refs) = 1)
                /\ Len(c.refs) <= 3
                /\ c.polygons = <<>>
                /\ c.refs[1].cell.layer = bp.layer_top_metal
                /\ \A k \in 2..Len(c.refs) : c.refs[k].cell.layer = layers[k - 1])

C5_Witness ==
    /\ fn = "bondpad" /\ pc = "done" /\ bp.shape = "circle"
    /\ ~bp.bbox_offsets.none /\ Len(bp.bbox_offsets.val) = 1
    /\ Len(c.refs) = 2 /\ c.refs[2].cell.layer = "Passivpillar"

OuterLayerCount(layer) ==
    Cardinality({k \in 1..Len(ic.polygons) : ic.polygons[k].layer = layer})

\* C6: inductor2 draws the outer-boundary octagon once on the identification
\* layer, once on each of the 9 anti-fill layers, once on the well-block layer,
\* and once on the RC-extraction blocking layer iff block_qrc: 12 polygons when
\* block_qrc, 11 otherwise, all with the same 8 vertices, on distinct layers.
C6_OuterBoundaryPolygons ==
    (fn = "inductor2" /\ pc \in {"i2_pins", "i2_info", "done"}) =>
        /\ Len(ic.polygons) = (IF ind.block_qrc THEN 12 ELSE 11)
        /\ OuterLayerCount(IND) = 1
        /\ Len(NoFill_layers) = 9
        /\ \A n \in 1..9 : OuterLayerCount(NoFill_layers[n]) = 1
        /\ OuterLayerCount(PWellBlock) = 1
        /\ OuterLayerCount(NoRCX) = (IF ind.block_qrc THEN 1 ELSE 0)
        /\ \A k \in 1..Len(ic.polygons) :
            /\ Len(ic.polygons[k].points) = 8
            /\ ic.polygons[k].points = ic.polygons[1].points
        /\ \A k1, k2 \in 1..Len(ic.polygons) :
            k1 # k2 => ic.polygons[k1].layer # ic.polygons[k2].layer

C6_Witness ==
    /\ fn = "inductor2" /\ pc = "done" /\ ~ind.block_qrc
    /\ Len(ic.polygons) = 11 /\ OuterLayerCount(NoRCX) = 0

\* The rectangle instances of inductor2's component on a layer.
RectsOn(layer) ==
    {k \in 1..Len(ic.refs) :
        ic.refs[k].cell.kind = "rectangle" /\ ic.refs[k].cell.layer = layer}

\* Twice the x-range <<2*left, 2*right>> of rectangle instance k.
XRange2(k) == <<2 * ic.refs[k].dx, 2 * (ic.refs[k].dx + ic.refs[k].cell.size[1])>>

\* C7: inductor2 has exactly the ports P1 at (-s, s) and P2 at (+s, s), width
\* s, orientation 270, s the grid-quantized spacing; the two s-by-length stubs
\* span x in [-3s/2, -s/2] and [s/2, 3s/2] over y in [0, length], the two
\* s-by-s pins span the same x ranges over y in [0, s], and each stub is
\* centred on its port: the placement is mirror-symmetric about x = 0.
C7_PortsStubsPinsSymmetric ==
    (fn = "inductor2" /\ pc = "done") =>
        LET s == RoundDiv(ind.space, grid) * grid
            length == 2 * ((RoundDiv(ind.diameter, 2 * grid) * 2 * grid) \div 2 + s) + s
            stubs == RectsOn(TM2)
            pins == RectsOn(TopMetal2Pin)
            left == <<-3 * s, -s>>
            right == <<s, 3 * s>>
        IN  /\ Len(ic.ports) = 2
            /\ ic.ports[1] = [name |-> "P1", x |-> -s, y |-> s, width |-> s,
                              orientation |-> 270, layer |-> TM2]
            /\ ic.ports[2] = [name |-> "P2", x |-> s, y |-> s, width |-> s,
                              orientation |-> 270, layer |-> TM2]
            /\ Cardinality(stubs) = 2 /\ Cardinality(pins) = 2
            /\ \A k \in stubs :
                ic.refs[k].cell.size = <<s, length>> /\ ic.refs[k].dy = 0
            /\ \A k \in pins :
                ic.refs[k].cell.size = <<s, s>> /\ ic.refs[k].dy = 0
            /\ {XRange2(k) : k \in stubs} = {left, right}
            /\ {XRange2(k) : k \in pins} = {left, right}
            /\ \A k \in stubs \cup pins :
                \E m \in stubs \cup pins :
                    /\ ic.refs[m].cell = ic.refs[k].cell
                    /\ XRange2(m) = <<-XRange2(k)[2], -XRange2(k)[1]>>
            /\ \A p \in 1..2 : \E k \in stubs :
                XRange2(k)[1] + XRange2(k)[2] = 4 * ic.ports[p].x

C7_Witness ==
    /\ fn = "inductor2" /\ pc = "done" /\ ind.space = 2104
    /\ ic.ports[1].x = -2100 /\ ic.ports[2].x = 2100
    /\ ic.refs[5].dx = -3150

\* C8: two calls of inductor2 that differ only in turns return the same
\* instances, polygons and ports; the metadata differs only in "turns", which
\* records the requested turn count.
C8_TurnsOnlyInMetadata ==
    (fn = "inductor2" /\ pc = "done") =>
        /\ ic.info["turns"] = ind.turns
        /\ \A t \in Turns :
            LET other == Inductor2Layout([ind EXCEPT !.turns = t])
            IN  /\ other.refs = ic.refs
                /\ other.polygons = ic.polygons
                /\ other.ports = ic.ports
                /\ other.info = [ic.info EXCEPT !["turns"] = t]

C8_Witness ==
    /\ fn = "inductor2" /\ pc = "done" /\ ind.turns = 2
    /\ ic.info["turns"] = 2 /\ Len(ic.refs[1].cell.points) = 10

\* C9: for every raw width, space and diameter (zero and negative included,
\* none raising), w and d are multiples of 2g and s is a multiple of g, so
\* d/2, r = d/2 + s, the centre offset 3r and the stub length 2r + s are
\* multiples of g.
C9_OnGrid ==
    (fn = "inductor2" /\ pc # "i2_grid") =>
        /\ pc # "raised"
        /\ loc.w % (2 * grid) = 0
        /\ loc.d % (2 * grid) = 0
        /\ loc.s % grid = 0
        /\ 2 * (loc.d \div 2) = loc.d
        /\ (loc.d \div 2) % grid = 0
        /\ loc.r = (loc.d \div 2) + loc.s
        /\ loc.r % grid = 0
        /\ loc.octagon_center_y = 3 * loc.r
        /\ loc.octagon_center_y % grid = 0
        /\ (pc = "done" =>
                /\ ic.refs[2].cell.size[2] = 2 * loc.r + loc.s
                /\ ic.refs[2].cell.size[2] % grid = 0)

C9_Witness ==
    /\ fn = "inductor2" /\ pc = "done"
    /\ ind.width = -2005 /\ ind.space = 0 /\ ind.diameter = 25350
    /\ loc.w = -2000 /\ loc.d = 25360

\* C10: the coil path has exactly 10 points: the 8 octagon vertices for
\* indices -2 .. 5 in order, preceded by a point at x = +s/2 and followed by
\* one at x = -s/2, both at y = coil_center_y - r*cos(22.5 deg), s being the
\* grid-quantized spacing used to place the stubs.
C10_PathEndsOnQuantizedSpacing ==
    (fn = "inductor2" /\ pc = "done") =>
        LET pts == ic.refs[1].cell.points
            s == RoundDiv(ind.space, grid) * grid
            y0 == loc.octagon_center_y * TrigScale - loc.r * Cos225
        IN  /\ Len(pts) = 10
            /\ \A n \in 1..8 :
                pts[n + 1] = <<loc.r * CosAt(n - 3),
                               loc.r * SinAt(n - 3) + loc.octagon_center_y * TrigScale>>
            /\ pts[1][2] = y0 /\ pts[10][2] = y0
            /\ 2 * pts[1][1] = s * TrigScale
            /\ 2 * pts[10][1] = -s * TrigScale

====
